---- MODULE Spec2Model ----
(***************************************************************************)
(* FruitBid: the bidding / billing / lucky-dip workflow of Fruitbidapp.py  *)
(* over the tables of db.py.  One action is one run of main() triggered by *)
(* one widget; the clock is the environment's.                             *)
(*                                                                         *)
(* Optional values (Python None, SQL NULL, a missing row) are <<>>, a      *)
(* present value v is <<v>>.  Amounts are whole rupees.  Billing values    *)
(* are rupees (the modelled prices and discounts divide exactly).          *)
(***************************************************************************)
EXTENDS Integers, Sequences, FiniteSets, TLC

\* ------------------------------------------------------------------ bounds
\* Last clock reading explored, in ticks.
MaxTime == 6
\* Most rows the otps table holds (SpecOtp).
MaxOtps == 2

\* ------------------------------------------------------- program constants
\* datetime.timedelta.days counts whole days; the clock ticks twice a day.
TicksPerDay == 2
\* bidding_open = days_elapsed < 3
BID_DAYS == 3
\* set_setting("discount_pct", 20)
DEFAULT_DISCOUNT == 20
\* MARKET_PRICES.get(item, 100)
DEFAULT_PRICE == 100
\* expiration = datetime.now() + timedelta(minutes=5); a tick of SpecOtp is a
\* minute.
OTP_MINUTES == 5

None == <<>>
Some(v) == <<v>>

\* ------------------------------------------------------------------ inputs
\* Contact identifiers typed into the forms: the well-formed e-mails a@x.in and
\* c@x.in, the well-formed mobile number +919000000001, the malformed "bad".
\* "Register to Bid" forms: <<reg_type, reg_id, address>>.
RegistrationForms == {<<"Email", "c@x.in", "12 MG Road">>,
                      <<"Email", "bad", "12 MG Road">>,
                      <<"Mobile", "+919000000001", "">>,
                      <<"Mobile", "+919000000001", "12 MG Road">>}
\* "Mobile Number or Email for Login"
LoginIds == {"a@x.in", "+919000000001", "c@x.in"}
Passwords == {"admin123", "guess"}
\* Outcomes of generate_otp() and values typed into "Enter OTP".
Codes == {"123456", "654321"}
\* The microsecond field of a reading of datetime.now(): zero, or not.
Micros == {0, 500000}
\* Values typed into "Your Bid INR per kg" (min_value = 0.0).
Amounts == {0, 40, 140, 150, 210}
\* Values typed into "Discount Percent for Cycle" (0..100).
Discounts == {20, 50}
\* Edits of one "Minimum Bid for <item>" field of the form.
MinBidEdits == {[name |-> "Apple", min_bid |-> 160]}
\* Rows the admin can type into "Add New Item"; "" is the field left empty.
NewItems == {[name |-> "Guava", min_bid |-> 160, market_cap |-> 40],
             [name |-> "Apple", min_bid |-> 0, market_cap |-> 40],
             [name |-> "", min_bid |-> 0, market_cap |-> 0]}

\* The rows initialize_items() inserts into an empty items table (two of the
\* nine, with the source's numbers).
initial_items == <<[name |-> "Apple", min_bid |-> 100, market_cap |-> 200],
                   [name |-> "Banana", min_bid |-> 30, market_cap |-> 50]>>

ItemNames == {"Apple", "Banana", "Guava"}

\* The users table of the fruitbid.db the process is started on: the file
\* outlives the process (CREATE TABLE IF NOT EXISTS), so the table is either
\* new or holds the users earlier runs verified.
PersistedUsers == {<<>>,
                   <<[id |-> 1, mobile_email |-> "a@x.in", verified |-> TRUE],
                     [id |-> 2, mobile_email |-> "+919000000001", verified |-> TRUE]>>}

VARIABLES
  now,                \* the wall clock, in ticks
  items,              \* table items: sequence of [name, min_bid, market_cap]
  bids,               \* table bids in id order: [item_name, user_id, bid_amount]
  lucky_dip,          \* table lucky_dip: set of [item_name, user_id, bid_amount]
  users,              \* table users in id order
  otps,               \* table otps in id order
  discount_pct,       \* settings["discount_pct"]
  bid_start,          \* settings["bid_start"]
  billing_calculated, \* settings["billing_calculated"], None when absent or NULL
  billing,            \* settings["billing_<item>"] per item name, None likewise
  current_user,       \* st.session_state.current_user ("" is None)
  current_user_id,    \* st.session_state.current_user_id (0 is None)
  admin_logged,       \* st.session_state.admin_logged
  temp_reg,           \* st.session_state.temp_reg
  billing_attempts,   \* history: the discount_pct values under which the body
                      \* of the billing pass was entered since bid_start was set
  requests,           \* SpecRequests: per script thread, its place in lines
                      \* 242-269 and the passes whose guard it has passed
  sequential          \* SpecRequests: TRUE when a run starts only after the
                      \* other has ended

vars == <<now, items, bids, lucky_dip, users, otps, discount_pct, bid_start,
          billing_calculated, billing, current_user, current_user_id,
          admin_logged, temp_reg, billing_attempts, requests, sequential>>

\* The state a run works on, as one record.  messages collects what the run
\* shows (st.success / st.error / st.info, and the name of an exception that
\* leaves main()); raised is set by such an exception, and the rest of the
\* script is then skipped.
Cur ==
  [items |-> items, bids |-> bids, lucky_dip |-> lucky_dip, users |-> users,
   otps |-> otps, discount_pct |-> discount_pct, bid_start |-> bid_start,
   billing_calculated |-> billing_calculated, billing |-> billing,
   current_user |-> current_user, current_user_id |-> current_user_id,
   admin_logged |-> admin_logged, temp_reg |-> temp_reg,
   billing_attempts |-> billing_attempts,
   messages |-> {}, raised |-> FALSE, ret |-> FALSE]

\* return value of the call a run made last
Return(s, v) == [s EXCEPT !.ret = v]

Say(s, m) == [s EXCEPT !.messages = @ \cup {m}]
Raise(s, e) == [s EXCEPT !.messages = @ \cup {e}, !.raised = TRUE]

\* --------------------------------------------------------------- db.py
RECURSIVE SeqMax(_)
\* SQL MAX(...) / ORDER BY ... DESC LIMIT 1 over a column: None when no row.
SeqMax(q) ==
  IF q = <<>> THEN None
  ELSE LET r == SeqMax(Tail(q))
       IN IF r = None \/ Head(q) > r[1] THEN Some(Head(q)) ELSE r

\* The bid_amount column of a sequence of bid rows.
AmountColumn(q) == [i \in 1..Len(q) |-> q[i].bid_amount]

\* SELECT ... FROM bids WHERE item_name = ?, in id order.
BidsOfItem(s, item_name) == SelectSeq(s.bids, LAMBDA r: r.item_name = item_name)

\* SELECT ... FROM bids WHERE item_name = ? AND user_id = ?, in id order.
BidsOfItemUser(s, item_name, user_id) ==
  SelectSeq(s.bids, LAMBDA r: r.item_name = item_name /\ r.user_id = user_id)

get_items(s) == [i \in 1..Len(s.items) |-> s.items[i].name]

ItemRow(s, item_name) ==
  LET hit == SelectSeq(s.items, LAMBDA r: r.name = item_name)
  IN IF hit = <<>> THEN None ELSE Some(Head(hit))

get_min_bid(s, item_name) ==
  LET row == ItemRow(s, item_name) IN IF row = None THEN None ELSE Some(row[1].min_bid)

get_market_cap(s, item_name) ==
  LET row == ItemRow(s, item_name) IN IF row = None THEN None ELSE Some(row[1].market_cap)

\* get_highest_bid with SELECT MIN(bid_amount) for MAX.
get_highest_bid_min(s, item_name) ==
  LET col == AmountColumn(BidsOfItem(s, item_name))
  IN IF col = <<>> THEN 0
     ELSE CHOOSE m \in {col[i] : i \in 1..Len(col)} :
            \A j \in 1..Len(col) : m <= col[j]

get_highest_bid(s, item_name) ==
  LET row == SeqMax(AmountColumn(BidsOfItem(s, item_name)))
  IN IF row # None THEN row[1] ELSE 0

get_user_id(s, mobile_email) ==
  LET hit == SelectSeq(s.users, LAMBDA r: r.mobile_email = mobile_email)
  IN IF hit = <<>> THEN None ELSE Some(Head(hit).id)

\* "value or 0" of Fruitbidapp.py for an optional number.
OrZero(v) == IF v = None THEN 0 ELSE v[1]

\* --------------------------------------------------------------- utils.py
validate_mobile(val) == val \in {"+919000000001"}
validate_email(val) == val \in {"a@x.in", "c@x.in"}

\* bcrypt check against ADMIN_PASSWORD (default 'admin123').
check_admin_password(password) == password = "admin123"

\* MARKET_PRICES.get(item, 100); of the table's twelve rows, the modelled names.
fetch_real_time_price(item) ==
  IF item = "Apple" THEN 200
  ELSE IF item = "Banana" THEN 40
  ELSE DEFAULT_PRICE

\* The result of a call: ok is FALSE when the call raised.
Returned(v) == [ok |-> TRUE, value |-> v]
Raised == [ok |-> FALSE, value |-> 0]

\* monitor_prices with the call written get_setting('discount_pct'): the
\* price less the discount.
monitor_prices_one_arg(s, item) ==
  Returned((fetch_real_time_price(item) * (100 - s.discount_pct)) \div 100)

\* monitor_prices calls get_setting('discount_pct', 20); db.get_setting takes
\* one positional argument, so the call raises TypeError before a price is
\* computed (st.cache_data stores no result of a call that raised).
monitor_prices(s, item) == Raised

\* ------------------------------------------------- Fruitbidapp.py: timing
\* (datetime.now() - bid_start).days at clock reading t: timedelta.days is
\* the floor of the elapsed time in days.
DaysElapsed(t, start) == (t - start) \div TicksPerDay

\* bidding_open with "days_elapsed <= 3".
BiddingOpenInclusive(t, start) == DaysElapsed(t, start) <= BID_DAYS

\* bidding_open = days_elapsed < 3
BiddingOpen(t, start) == DaysElapsed(t, start) < BID_DAYS

\* What the run in progress computed at lines 166-170: one reading of
\* bid_start and of the clock (the source's two datetime.now() calls are
\* taken as one reading).
days_elapsed == DaysElapsed(now, bid_start)
bidding_open == BiddingOpen(now, bid_start)
\* timedelta(days=3) - (datetime.now() - bid_start), in ticks
remaining == BID_DAYS * TicksPerDay - (now - bid_start)

\* ------------------------------------- Fruitbidapp.py: billing, lucky dip
RECURSIVE BillingLoop(_, _)
\* for item in get_items(): billing = monitor_prices(item);
\* set_setting(f"billing_{item}", billing); then the marker.  Every
\* set_setting commits on its own; an exception leaves the loop.
BillingLoop(s, names) ==
  IF names = <<>>
  THEN [s EXCEPT !.billing_calculated = Some(s.bid_start)]
  ELSE LET r == monitor_prices(s, Head(names))
       IN IF r.ok
          THEN BillingLoop([s EXCEPT !.billing[Head(names)] = Some(r.value)],
                           Tail(names))
          ELSE Say(s, "Error calculating billing")

\* The billing pass without the billing_calculated test and with prices that
\* are computed: every closed run stores the rates under the discount of
\* the moment.
BillingPassUnguarded(s) ==
  [s EXCEPT !.billing = [n \in ItemNames |->
                           IF \E i \in 1..Len(s.items) : s.items[i].name = n
                           THEN Some(monitor_prices_one_arg(s, n).value)
                           ELSE s.billing[n]],
            !.billing_calculated = Some(s.bid_start),
            !.billing_attempts = @ \cup {s.discount_pct}]

\* if billing_calculated != bid_start.isoformat(): try: ... except Exception.
\* The marker is compared as the string stored in bid_start (isoformat of
\* fromisoformat of a string isoformat produced gives that string back).
BillingPass(s) ==
  IF s.billing_calculated # Some(s.bid_start)
  THEN BillingLoop([s EXCEPT !.billing_attempts = @ \cup {s.discount_pct}],
                   get_items(s))
  ELSE s

\* bids_list with ORDER BY bid_amount DESC LIMIT 1: the highest bid alone.
bids_list_highest_only(s, item) ==
  LET q == SelectSeq(BidsOfItem(s, item),
                     LAMBDA r: r.bid_amount = get_highest_bid(s, item))
  IN [i \in 1..Len(q) |-> <<q[i].user_id, q[i].bid_amount>>]

\* SELECT user_id, bid_amount FROM bids WHERE item_name=?
bids_list(s, item) ==
  LET q == BidsOfItem(s, item)
  IN [i \in 1..Len(q) |-> <<q[i].user_id, q[i].bid_amount>>]

\* The outcomes of the run's random.choice calls: per item name an index
\* into its bids_list (1 where the list is empty and no choice is made).
Draws(s) ==
  {d \in [ItemNames -> 1..(Len(s.bids) + 1)] :
     \A n \in ItemNames :
       d[n] <= (IF Len(bids_list(s, n)) = 0 THEN 1 ELSE Len(bids_list(s, n)))}

RECURSIVE LuckyDipLoop(_, _, _)
\* for item in get_items(): bids_list = ...; if bids_list: winner =
\* random.choice(bids_list); INSERT INTO lucky_dip.  item_name is the
\* table's PRIMARY KEY: a second row for a name raises IntegrityError.
LuckyDipLoop(s, names, draw) ==
  IF names = <<>> THEN s
  ELSE LET item == Head(names)
           bl == bids_list(s, item)
       IN IF bl = <<>> THEN LuckyDipLoop(s, Tail(names), draw)
          ELSE IF \E r \in s.lucky_dip : r.item_name = item
          THEN Say(s, "Error calculating lucky dip")
          ELSE LET winner == bl[draw[item]]
               IN LuckyDipLoop(
                    [s EXCEPT !.lucky_dip = @ \cup
                       {[item_name |-> item, user_id |-> winner[1],
                         bid_amount |-> winner[2]]}],
                    Tail(names), draw)

\* The lucky-dip pass without the COUNT(*) test, over an emptied table: every
\* closed run draws again.
LuckyDipPassReplacing(s, draw) ==
  LuckyDipLoop([s EXCEPT !.lucky_dip = {}], get_items(s), draw)

\* SELECT COUNT(*) FROM lucky_dip; if 0: populate and commit.
LuckyDipPass(s, draw) ==
  IF Cardinality(s.lucky_dip) = 0
  THEN LuckyDipLoop(s, get_items(s), draw)
  ELSE s

\* Lines 242-269: runs in every run of the script that reaches it with
\* bidding closed.
Resolver(s, draw) ==
  IF s.raised \/ bidding_open THEN s
  ELSE LuckyDipPass(BillingPass(s), draw)

\* ------------------------------------------------------------- otp.py
\* A datetime is <<tick, microsecond>>; a > b on datetimes.
DatetimeGT(a, b) == a[1] > b[1] \/ (a[1] = b[1] /\ a[2] > b[2])

\* The text sqlite3 stores for a datetime parameter: isoformat(" "), which
\* leaves the fraction out when the microsecond field is 0.
adapt_datetime(dt) ==
  [t |-> dt[1], frac |-> IF dt[2] = 0 THEN None ELSE Some(dt[2])]

\* datetime.strptime(text, "%Y-%m-%d %H:%M:%S.%f"): ValueError for a text
\* without fraction.
strptime(text) ==
  IF text.frac = None THEN Raised ELSE Returned(<<text.t, text.frac[1]>>)

\* mobile_email.replace("+", "").isdigit()
IsDigits(mobile_email) == mobile_email \in {"+919000000001"}

\* send_otp(mobile_email): otp is the outcome of generate_otp(), us the
\* microsecond field of datetime.now(), delivered the outcome of the SMS call.
send_otp(s, mobile_email, otp, us, delivered) ==
  LET expiration == <<now + OTP_MINUTES, us>>
      s1 == [s EXCEPT !.otps = Append(@,
               [mobile_email |-> mobile_email, otp |-> otp,
                expiration |-> adapt_datetime(expiration)])]
  IN Return(IF IsDigits(mobile_email)
            THEN IF delivered THEN Say(s1, "OTP sent successfully")
                 ELSE Say(s1, "Could not send SMS")
            ELSE Say(s1, "Your OTP (for testing)"),
            TRUE)

\* verify_otp that deletes the challenge it has honoured.
verify_otp_consuming(s, mobile_email, user_otp, us) ==
  LET rows == SelectSeq(s.otps, LAMBDA r: r.mobile_email = mobile_email)
  IN IF rows = <<>> THEN Return(Say(s, "No OTP found for this user"), FALSE)
     ELSE LET row == rows[Len(rows)]
              exp_time == strptime(row.expiration)
          IN IF ~exp_time.ok THEN Return(Say(s, "Error verifying OTP"), FALSE)
             ELSE IF DatetimeGT(<<now, us>>, exp_time.value)
             THEN Return(Say(s, "OTP expired"), FALSE)
             ELSE IF user_otp = row.otp
             THEN Return(Say([s EXCEPT !.otps = SelectSeq(@, LAMBDA r: r # row)],
                             "OTP verified successfully"), TRUE)
             ELSE Return(Say(s, "Invalid OTP"), FALSE)

\* verify_otp(mobile_email, user_otp), the clock read at <<now, us>>: the row
\* with the greatest id of the identifier, its expiration parsed, then the
\* comparison of the codes.
verify_otp(s, mobile_email, user_otp, us) ==
  LET rows == SelectSeq(s.otps, LAMBDA r: r.mobile_email = mobile_email)
  IN IF rows = <<>> THEN Return(Say(s, "No OTP found for this user"), FALSE)
     ELSE LET row == rows[Len(rows)]
              exp_time == strptime(row.expiration)
          IN IF ~exp_time.ok THEN Return(Say(s, "Error verifying OTP"), FALSE)
             ELSE IF DatetimeGT(<<now, us>>, exp_time.value)
             THEN Return(Say(s, "OTP expired"), FALSE)
             ELSE IF user_otp = row.otp
             THEN Return(Say(s, "OTP verified successfully"), TRUE)
             ELSE Return(Say(s, "Invalid OTP"), FALSE)

\* ------------------------------------------ Fruitbidapp.py: the handlers
\* admin_login that sets the flag whatever the password check returns.
admin_login_any(s, admin_pass) ==
  IF check_admin_password(admin_pass)
  THEN Say([s EXCEPT !.admin_logged = TRUE], "Admin logged in successfully")
  ELSE Say([s EXCEPT !.admin_logged = TRUE], "Incorrect password")

\* "Login as Admin"
admin_login(s, admin_pass) ==
  IF check_admin_password(admin_pass)
  THEN Say([s EXCEPT !.admin_logged = TRUE], "Admin logged in successfully")
  ELSE Say(s, "Incorrect password")

\* "Generate OTP".  The call send_otp(reg_id, reg_type) passes two arguments
\* to otp.send_otp(mobile_email): TypeError, outside any try.
register(s, reg_type, reg_id, address) ==
  LET valid_id == \/ (reg_type = "Mobile" /\ validate_mobile(reg_id))
                  \/ (reg_type = "Email" /\ validate_email(reg_id))
  IN IF valid_id /\ address # ""
     THEN Raise(s, "TypeError")
     ELSE Say(s, "Invalid mobile/email format or empty address")

\* "Verify and Register".  The key temp_reg is always in the session (line
\* 163), so with no pending registration None["reg_id"] raises TypeError.
verify_and_register(s, otp_input, us) ==
  IF s.temp_reg = None THEN Raise(s, "TypeError")
  ELSE LET v == verify_otp(s, s.temp_reg[1].reg_id, otp_input, us)
       IN IF v.ret
          THEN IF get_user_id(v, v.temp_reg[1].reg_id) # None
               THEN Say(v, "User already registered")
               ELSE Say([v EXCEPT !.users = Append(@,
                                    [id |-> Len(@) + 1,
                                     mobile_email |-> v.temp_reg[1].reg_id,
                                     verified |-> TRUE]),
                                  !.temp_reg = None],
                        "Registered successfully")
          ELSE Say(v, "Invalid or expired OTP")

\* login that opens the session for an identifier without a user record.
login_unchecked(s, login_id) ==
  LET user_id == get_user_id(s, login_id)
  IN Say([s EXCEPT !.current_user = login_id,
                   !.current_user_id = IF user_id # None THEN user_id[1]
                                       ELSE Len(s.users) + 1], "Logged in")

\* "Login"
login(s, login_id) ==
  LET user_id == get_user_id(s, login_id)
  IN IF user_id # None /\ user_id[1] # 0
     THEN Say([s EXCEPT !.current_user = login_id,
                        !.current_user_id = user_id[1]], "Logged in")
     ELSE Say(s, "User not found or not verified")

\* "Add Item and Update Discount": the INSERT (name is the PRIMARY KEY), then
\* the discount; get_billing_rate is a plain function, so
\* get_billing_rate.clear() raises AttributeError once the setting is stored.
add_item_and_update_discount(s, new_item, discount) ==
  LET s1 == IF new_item.name = "" THEN s
            ELSE IF ItemRow(s, new_item.name) # None
            THEN Say(s, "Item already exists")
            ELSE Say([s EXCEPT !.items = Append(@, new_item)], "Item added")
  IN IF 0 <= discount /\ discount <= 100
     THEN Raise([s1 EXCEPT !.discount_pct = discount], "AttributeError")
     ELSE Say(s1, "Discount must be between 0 and 100%")

\* "Update Minimum Bids": one UPDATE per item, the commit, the message, then
\* get_min_bid.clear() on a plain function: AttributeError.
update_minimum_bids(s, new_min_bids) ==
  Raise(Say([s EXCEPT !.items =
               [i \in 1..Len(s.items) |->
                  [s.items[i] EXCEPT !.min_bid = new_min_bids[s.items[i].name]]]],
            "Minimum bids updated"),
        "AttributeError")

\* reset_bid_cycle without DELETE FROM lucky_dip.
reset_bid_cycle_keeps_lucky_dip(s) ==
  Raise(Say([s EXCEPT !.bid_start = now,
                      !.bids = <<>>,
                      !.billing_calculated = None,
                      !.billing = [n \in ItemNames |->
                                     IF \E i \in 1..Len(s.items) : s.items[i].name = n
                                     THEN None ELSE s.billing[n]],
                      !.billing_attempts = {}],
            "Bid cycle reset"),
        "AttributeError")

\* "Reset Bid Cycle"; get_highest_bid.clear() on a plain function raises
\* AttributeError after everything has been stored.
reset_bid_cycle(s) ==
  Raise(Say([s EXCEPT !.bid_start = now,
                      !.bids = <<>>,
                      !.lucky_dip = {},
                      !.billing_calculated = None,
                      !.billing = [n \in ItemNames |->
                                     IF \E i \in 1..Len(s.items) : s.items[i].name = n
                                     THEN None ELSE s.billing[n]],
                      !.billing_attempts = {}],
            "Bid cycle reset"),
        "AttributeError")

\* submit_bid without the comparison with the item's highest bid.
submit_bid_skips_highest(s, item, bid_amount) ==
  LET cap == OrZero(get_market_cap(s, item))
      min_bid == OrZero(get_min_bid(s, item))
      existing == SeqMax(AmountColumn(BidsOfItemUser(s, item, s.current_user_id)))
  IN IF existing # None /\ bid_amount <= existing[1]
     THEN Say(s, "You already have a higher or equal bid")
     ELSE IF bid_amount > cap THEN Say(s, "Bid exceeds market cap")
     ELSE IF bid_amount < min_bid THEN Say(s, "Bid must be at least minimum")
     ELSE Raise(Say([s EXCEPT !.bids = Append(@,
                       [item_name |-> item, user_id |-> s.current_user_id,
                        bid_amount |-> bid_amount])],
                    "Bid confirmed"),
                "AttributeError")

\* submit_bid with "bid_amount < current_highest" for "<=".
submit_bid_accepts_equal(s, item, bid_amount) ==
  LET cap == OrZero(get_market_cap(s, item))
      min_bid == OrZero(get_min_bid(s, item))
      current_highest == get_highest_bid(s, item)
      existing == SeqMax(AmountColumn(BidsOfItemUser(s, item, s.current_user_id)))
  IN IF existing # None /\ bid_amount <= existing[1]
     THEN Say(s, "You already have a higher or equal bid")
     ELSE IF bid_amount > cap THEN Say(s, "Bid exceeds market cap")
     ELSE IF bid_amount < current_highest THEN Say(s, "Bid must exceed current highest")
     ELSE IF bid_amount < min_bid THEN Say(s, "Bid must be at least minimum")
     ELSE Raise(Say([s EXCEPT !.bids = Append(@,
                       [item_name |-> item, user_id |-> s.current_user_id,
                        bid_amount |-> bid_amount])],
                    "Bid confirmed"),
                "AttributeError")

\* submit_bid with the highest-bid check moved in front of the own-bid check.
submit_bid_highest_first(s, item, bid_amount) ==
  LET cap == OrZero(get_market_cap(s, item))
      min_bid == OrZero(get_min_bid(s, item))
      current_highest == get_highest_bid(s, item)
      existing == SeqMax(AmountColumn(BidsOfItemUser(s, item, s.current_user_id)))
  IN IF bid_amount <= current_highest THEN Say(s, "Bid must exceed current highest")
     ELSE IF existing # None /\ bid_amount <= existing[1]
     THEN Say(s, "You already have a higher or equal bid")
     ELSE IF bid_amount > cap THEN Say(s, "Bid exceeds market cap")
     ELSE IF bid_amount < min_bid THEN Say(s, "Bid must be at least minimum")
     ELSE Raise(Say([s EXCEPT !.bids = Append(@,
                       [item_name |-> item, user_id |-> s.current_user_id,
                        bid_amount |-> bid_amount])],
                    "Bid confirmed"),
                "AttributeError")

\* submit_bid with the last "elif" an "if" that does not stop the INSERT.
submit_bid_minimum_falls_through(s, item, bid_amount) ==
  LET cap == OrZero(get_market_cap(s, item))
      min_bid == OrZero(get_min_bid(s, item))
      current_highest == get_highest_bid(s, item)
      existing == SeqMax(AmountColumn(BidsOfItemUser(s, item, s.current_user_id)))
      inserted == [s EXCEPT !.bids = Append(@,
                     [item_name |-> item, user_id |-> s.current_user_id,
                      bid_amount |-> bid_amount])]
  IN IF existing # None /\ bid_amount <= existing[1]
     THEN Say(s, "You already have a higher or equal bid")
     ELSE IF bid_amount > cap THEN Say(s, "Bid exceeds market cap")
     ELSE IF bid_amount <= current_highest THEN Say(s, "Bid must exceed current highest")
     ELSE IF bid_amount < min_bid
     THEN Say(inserted, "Bid must be at least minimum")
     ELSE Raise(Say(inserted, "Bid confirmed"), "AttributeError")

\* "Submit Bid": the validation chain of lines 392-404, the INSERT, the
\* message, then get_highest_bid.clear() on a plain function.
submit_bid(s, item, bid_amount) ==
  LET cap == OrZero(get_market_cap(s, item))
      min_bid == OrZero(get_min_bid(s, item))
      current_highest == get_highest_bid(s, item)
      existing == SeqMax(AmountColumn(BidsOfItemUser(s, item, s.current_user_id)))
  IN IF existing # None /\ bid_amount <= existing[1]
     THEN Say(s, "You already have a higher or equal bid")
     ELSE IF bid_amount > cap THEN Say(s, "Bid exceeds market cap")
     ELSE IF bid_amount <= current_highest THEN Say(s, "Bid must exceed current highest")
     ELSE IF bid_amount < min_bid THEN Say(s, "Bid must be at least minimum")
     ELSE Raise(Say([s EXCEPT !.bids = Append(@,
                       [item_name |-> item, user_id |-> s.current_user_id,
                        bid_amount |-> bid_amount])],
                    "Bid confirmed"),
                "AttributeError")

\* Lines 380-418: the bidding interface of a run; submit is None, or the
\* selected item and the amount when "Submit Bid" was pressed.
bidding_interface(s, submit) ==
  IF s.raised THEN s
  ELSE IF bidding_open /\ s.current_user # ""
  THEN IF submit = None THEN s ELSE submit_bid(s, submit[1][1], submit[1][2])
  ELSE IF s.current_user = "" THEN Say(s, "Please login to place bids")
  ELSE Say(s, "Bidding closed")

\* The end of a run: what it stored becomes the state.
Commit(s) ==
  /\ items' = s.items
  /\ bids' = s.bids
  /\ lucky_dip' = s.lucky_dip
  /\ users' = s.users
  /\ otps' = s.otps
  /\ discount_pct' = s.discount_pct
  /\ bid_start' = s.bid_start
  /\ billing_calculated' = s.billing_calculated
  /\ billing' = s.billing
  /\ current_user' = s.current_user
  /\ current_user_id' = s.current_user_id
  /\ admin_logged' = s.admin_logged
  /\ temp_reg' = s.temp_reg
  /\ billing_attempts' = s.billing_attempts
  /\ UNCHANGED <<now, requests, sequential>>

\* The draws a run can make: only a run that populates the table draws.
RunDraws ==
  IF bidding_open \/ lucky_dip # {}
  THEN {[n \in ItemNames |-> 1]}
  ELSE Draws(Cur)

\* Two script threads (Streamlit runs every session's script in a thread of
\* its own; they share the connection of get_db_connection).
Requests == {1, 2}
Idle == [pc |-> "idle", ran_billing |-> FALSE, ran_lucky |-> FALSE, todo |-> <<>>]

\* -------------------------------------------------------------- actions
\* Time passes between two runs.
Tick ==
  /\ now < MaxTime
  /\ now' = now + 1
  /\ UNCHANGED <<items, bids, lucky_dip, users, otps, discount_pct, bid_start,
                 billing_calculated, billing, current_user, current_user_id,
                 admin_logged, temp_reg, billing_attempts, requests,
                 sequential>>

\* The runs of main(), one per widget: the triggered handler in its place in
\* the script, the resolver of lines 242-269, the bidding interface.
RefreshRun(draw) == bidding_interface(Resolver(Cur, draw), None)

AdminLoginRun(admin_pass, draw) ==
  bidding_interface(Resolver(admin_login(Cur, admin_pass), draw), None)

RegisterRun(reg_type, reg_id, address, draw) ==
  bidding_interface(Resolver(register(Cur, reg_type, reg_id, address), draw), None)

VerifyRun(otp_input, us, draw) ==
  bidding_interface(Resolver(verify_and_register(Cur, otp_input, us), draw), None)

LoginRun(login_id, draw) ==
  bidding_interface(Resolver(login(Cur, login_id), draw), None)

AddItemRun(new_item, discount, draw) ==
  bidding_interface(
    add_item_and_update_discount(Resolver(Cur, draw), new_item, discount), None)

UpdateMinimumBidsRun(new_min_bids, draw) ==
  bidding_interface(update_minimum_bids(Resolver(Cur, draw), new_min_bids), None)

ResetRun(draw) == bidding_interface(reset_bid_cycle(Resolver(Cur, draw)), None)

SubmitBidRun(item, bid_amount, draw) ==
  bidding_interface(Resolver(Cur, draw), Some(<<item, bid_amount>>))

\* A rerun of the script with no button pressed.
Refresh == \E draw \in RunDraws : Commit(RefreshRun(draw))

AdminLogin(admin_pass) ==
  \E draw \in RunDraws : Commit(AdminLoginRun(admin_pass, draw))

RegisterSubmit(reg_type, reg_id, address) ==
  \E draw \in RunDraws : Commit(RegisterRun(reg_type, reg_id, address, draw))

VerifySubmit(otp_input, us) ==
  \E draw \in RunDraws : Commit(VerifyRun(otp_input, us, draw))

Login(login_id) ==
  \E draw \in RunDraws : Commit(LoginRun(login_id, draw))

\* The admin panels are on the page of a session with admin_logged.
AddItemAndUpdateDiscount(new_item, discount) ==
  /\ admin_logged
  /\ \E draw \in RunDraws : Commit(AddItemRun(new_item, discount, draw))

UpdateMinimumBids(new_min_bids) ==
  /\ admin_logged
  /\ \E draw \in RunDraws : Commit(UpdateMinimumBidsRun(new_min_bids, draw))

ResetBidCycle ==
  /\ admin_logged
  /\ \E draw \in RunDraws : Commit(ResetRun(draw))

\* The button is on the page of a logged-in user.
SubmitBid(item, bid_amount) ==
  /\ current_user # ""
  /\ \E draw \in RunDraws : Commit(SubmitBidRun(item, bid_amount, draw))

\* "Update Minimum Bids" forms: every field as displayed (the stored value),
\* or with one field edited.
MinBidForms ==
  LET shown == [n \in {items[i].name : i \in 1..Len(items)} |->
                  OrZero(get_min_bid(Cur, n))]
  IN {shown} \cup {[shown EXCEPT ![e.name] = e.min_bid] : e \in MinBidEdits}

Init ==
  /\ now = 0
  /\ items = initial_items
  /\ bids = <<>>
  /\ lucky_dip = {}
  /\ users \in PersistedUsers
  /\ otps = <<>>
  /\ discount_pct = DEFAULT_DISCOUNT
  /\ bid_start = 0
  /\ billing_calculated = None
  /\ billing = [n \in ItemNames |-> None]
  /\ current_user = ""
  /\ current_user_id = 0
  /\ admin_logged = FALSE
  /\ temp_reg = None
  /\ billing_attempts = {}
  /\ requests = [r \in Requests |-> Idle]
  /\ sequential = TRUE

Next ==
  \/ Tick
  \/ Refresh
  \/ \E admin_pass \in Passwords : AdminLogin(admin_pass)
  \/ \E form \in RegistrationForms : RegisterSubmit(form[1], form[2], form[3])
  \/ \E otp_input \in Codes, us \in Micros : VerifySubmit(otp_input, us)
  \/ \E login_id \in LoginIds : Login(login_id)
  \/ \E new_item \in NewItems, discount \in Discounts :
        AddItemAndUpdateDiscount(new_item, discount)
  \/ \E new_min_bids \in MinBidForms : UpdateMinimumBids(new_min_bids)
  \/ ResetBidCycle
  \/ \E i \in 1..Len(items), bid_amount \in Amounts :
        SubmitBid(items[i].name, bid_amount)

Spec == Init /\ [][Next]_vars

\* ---------------------------------------------------------------- SpecOtp
\* otp.py on its own: send_otp and verify_otp called as they are declared,
\* with one identifier, over the otps table and a clock that ticks once a
\* minute.
OtpIdentifiers == {"a@x.in", "+919000000001"}

SendOtp(mobile_email, otp, us, delivered) ==
  /\ Len(otps) < MaxOtps
  /\ otps' = send_otp(Cur, mobile_email, otp, us, delivered).otps
  /\ UNCHANGED <<now, items, bids, lucky_dip, users, discount_pct, bid_start,
                 billing_calculated, billing, current_user, current_user_id,
                 admin_logged, temp_reg, billing_attempts, requests,
                 sequential>>

VerifyOtp(mobile_email, user_otp, us) ==
  /\ otps' = verify_otp(Cur, mobile_email, user_otp, us).otps
  /\ UNCHANGED <<now, items, bids, lucky_dip, users, discount_pct, bid_start,
                 billing_calculated, billing, current_user, current_user_id,
                 admin_logged, temp_reg, billing_attempts, requests,
                 sequential>>

InitOtp == Init /\ users = <<>>

NextOtp ==
  \/ Tick
  \/ \E mobile_email \in OtpIdentifiers, otp \in Codes, us \in Micros,
        delivered \in BOOLEAN : SendOtp(mobile_email, otp, us, delivered)
  \/ \E mobile_email \in OtpIdentifiers, user_otp \in Codes, us \in Micros :
        VerifyOtp(mobile_email, user_otp, us)

SpecOtp == InitOtp /\ [][NextOtp]_vars

\* ----------------------------------------------------------- SpecRequests
\* Lines 242-269 run by two script threads on the shared connection, one
\* SQL statement or settings call at a time (SQLite serialises the
\* statements of a connection; a row a thread has inserted is visible to
\* the other at once, both being in the connection's one transaction).
\* Ledgers a cycle can end with.
ClosingLedgers ==
  {<<>>,
   <<[item_name |-> "Apple", user_id |-> 1, bid_amount |-> 150]>>,
   <<[item_name |-> "Apple", user_id |-> 1, bid_amount |-> 140],
     [item_name |-> "Apple", user_id |-> 2, bid_amount |-> 150]>>,
   <<[item_name |-> "Apple", user_id |-> 1, bid_amount |-> 150],
     [item_name |-> "Banana", user_id |-> 2, bid_amount |-> 40]>>}

\* Lines 166-169 and 242: the thread reads the clock and bid_start.
ReqBegin(r) ==
  /\ requests[r].pc = "idle"
  /\ sequential => \A o \in Requests \ {r} : requests[o].pc \in {"idle", "done"}
  /\ requests' = [requests EXCEPT ![r].pc =
                    IF bidding_open THEN "done" ELSE "billing_guard"]
  /\ UNCHANGED <<now, items, bids, lucky_dip, users, otps, discount_pct,
                 bid_start, billing_calculated, billing, current_user,
                 current_user_id, admin_logged, temp_reg, billing_attempts,
                 sequential>>

\* Lines 243-244: billing_calculated = get_setting(...); the comparison.
ReqBillingGuard(r) ==
  /\ requests[r].pc = "billing_guard"
  /\ requests' = [requests EXCEPT
                    ![r].pc = IF billing_calculated # Some(bid_start)
                              THEN "billing_body" ELSE "lucky_guard",
                    ![r].ran_billing = billing_calculated # Some(bid_start)]
  /\ UNCHANGED <<now, items, bids, lucky_dip, users, otps, discount_pct,
                 bid_start, billing_calculated, billing, current_user,
                 current_user_id, admin_logged, temp_reg, billing_attempts,
                 sequential>>

\* Lines 245-253: the loop over the items and the marker.
ReqBillingBody(r) ==
  /\ requests[r].pc = "billing_body"
  /\ LET s == BillingLoop([Cur EXCEPT !.billing_attempts = @ \cup {discount_pct}],
                          get_items(Cur))
     IN /\ billing' = s.billing
        /\ billing_calculated' = s.billing_calculated
        /\ billing_attempts' = s.billing_attempts
  /\ requests' = [requests EXCEPT ![r].pc = "lucky_guard"]
  /\ UNCHANGED <<now, items, bids, lucky_dip, users, otps, discount_pct,
                 bid_start, current_user, current_user_id, admin_logged,
                 temp_reg, sequential>>

\* Lines 258-260: SELECT COUNT(*) FROM lucky_dip; get_items().
ReqLuckyGuard(r) ==
  /\ requests[r].pc = "lucky_guard"
  /\ requests' = [requests EXCEPT
                    ![r].pc = IF Cardinality(lucky_dip) = 0
                              THEN "lucky_body" ELSE "done",
                    ![r].ran_lucky = (Cardinality(lucky_dip) = 0),
                    ![r].todo = IF Cardinality(lucky_dip) = 0
                                THEN get_items(Cur) ELSE <<>>]
  /\ UNCHANGED <<now, items, bids, lucky_dip, users, otps, discount_pct,
                 bid_start, billing_calculated, billing, current_user,
                 current_user_id, admin_logged, temp_reg, billing_attempts,
                 sequential>>

\* Lines 261-266 for one item: the SELECT of its bids, the draw, the INSERT;
\* an IntegrityError leaves the loop for the except of line 268.
ReqLuckyItem(r) ==
  /\ requests[r].pc = "lucky_body"
  /\ requests[r].todo # <<>>
  /\ \E draw \in Draws(Cur) :
       LET s == LuckyDipLoop(Cur, <<Head(requests[r].todo)>>, draw)
       IN /\ lucky_dip' = s.lucky_dip
          /\ requests' = [requests EXCEPT
                ![r].pc = IF "Error calculating lucky dip" \in s.messages
                          THEN "done" ELSE "lucky_body",
                ![r].todo = Tail(@)]
  /\ UNCHANGED <<now, items, bids, users, otps, discount_pct, bid_start,
                 billing_calculated, billing, current_user, current_user_id,
                 admin_logged, temp_reg, billing_attempts, sequential>>

\* Line 267: conn.commit().
ReqLuckyCommit(r) ==
  /\ requests[r].pc = "lucky_body"
  /\ requests[r].todo = <<>>
  /\ requests' = [requests EXCEPT ![r].pc = "done"]
  /\ UNCHANGED <<now, items, bids, lucky_dip, users, otps, discount_pct,
                 bid_start, billing_calculated, billing, current_user,
                 current_user_id, admin_logged, temp_reg, billing_attempts,
                 sequential>>

\* A cycle about to close or closed, two sessions about to rerun the script.
InitRequests ==
  /\ now \in {BID_DAYS * TicksPerDay - 1, BID_DAYS * TicksPerDay}
  /\ items = initial_items
  /\ bids \in ClosingLedgers
  /\ lucky_dip = {}
  /\ users \in PersistedUsers \ {<<>>}
  /\ otps = <<>>
  /\ discount_pct = DEFAULT_DISCOUNT
  /\ bid_start = 0
  /\ billing_calculated = None
  /\ billing = [n \in ItemNames |-> None]
  /\ current_user = ""
  /\ current_user_id = 0
  /\ admin_logged = FALSE
  /\ temp_reg = None
  /\ billing_attempts = {}
  /\ requests = [r \in Requests |-> Idle]
  /\ sequential \in BOOLEAN

NextRequests ==
  \E r \in Requests :
    \/ ReqBegin(r)
    \/ ReqBillingGuard(r)
    \/ ReqBillingBody(r)
    \/ ReqLuckyGuard(r)
    \/ ReqLuckyItem(r)
    \/ ReqLuckyCommit(r)

SpecRequests == InitRequests /\ [][NextRequests]_vars

\* ======================================================================
\* Properties.  The ledger, the catalog and the standing of a user are
\* restated here on sets of rows, apart from the operators above.
CatalogNames == {items[i].name : i \in 1..Len(items)}
CatalogRows == {items[i] : i \in 1..Len(items)}
LedgerRows == {bids[i] : i \in 1..Len(bids)}
AmountsOn(item) == {b.bid_amount : b \in {r \in LedgerRows : r.item_name = item}}
AmountsOnBy(item, user_id) ==
  {b.bid_amount : b \in {r \in LedgerRows : r.item_name = item /\ r.user_id = user_id}}
\* max(amount) over a set of amounts, 0 if none
MaxOrZero(S) == IF S = {} THEN 0 ELSE CHOOSE m \in S : \A a \in S : a <= m

\* The four conditions a bid can violate, in the order of the contract.
ViolatesOwnStanding(item, amount) ==
  \E a \in AmountsOnBy(item, current_user_id) : amount <= a
ViolatesCap(item, amount) ==
  \E r \in CatalogRows : r.name = item /\ amount > r.market_cap
ViolatesHighest(item, amount) == amount <= MaxOrZero(AmountsOn(item))
ViolatesMinimum(item, amount) ==
  \E r \in CatalogRows : r.name = item /\ amount < r.min_bid

Acceptable(item, amount) ==
  /\ ~ViolatesOwnStanding(item, amount)
  /\ ~ViolatesCap(item, amount)
  /\ ~ViolatesHighest(item, amount)
  /\ ~ViolatesMinimum(item, amount)

RejectionMessages == {"You already have a higher or equal bid",
                      "Bid exceeds market cap",
                      "Bid must exceed current highest",
                      "Bid must be at least minimum"}

\* C1: while bidding is open, for every item, logged-in user and amount the
\* Submit Bid run appends exactly the row (item, user, amount) to the ledger
\* if and only if the amount exceeds the user's own standing (when there is
\* one), is at most the market cap, exceeds the item's highest bid and is at
\* least the minimum bid; in every other case the ledger is left as it was.
C1_AcceptedIffAllConditions ==
  (bidding_open /\ current_user # "") =>
    \A item \in CatalogNames, amount \in Amounts, draw \in RunDraws :
      LET r == SubmitBidRun(item, amount, draw)
      IN IF Acceptable(item, amount)
         THEN r.bids = Append(bids, [item_name |-> item,
                                     user_id |-> current_user_id,
                                     bid_amount |-> amount])
         ELSE r.bids = bids

\* A cycle in which a second bid has been accepted on an item and, for the
\* user now logged in, one amount is accepted and another rejected.
C1_Witness ==
  /\ bidding_open /\ current_user # ""
  /\ \E item \in CatalogNames : Cardinality(AmountsOn(item)) = 2
  /\ \E item \in CatalogNames, amount \in Amounts, draw \in RunDraws :
       /\ Acceptable(item, amount)
       /\ Len(SubmitBidRun(item, amount, draw).bids) = Len(bids) + 1
  /\ \E item \in CatalogNames, amount \in Amounts, draw \in RunDraws :
       /\ ~Acceptable(item, amount)
       /\ SubmitBidRun(item, amount, draw).bids = bids

\* The rejection a run reports is the first violated condition of the order
\* own standing, cap, highest, minimum.
FirstViolation(item, amount) ==
  IF ViolatesOwnStanding(item, amount) THEN "You already have a higher or equal bid"
  ELSE IF ViolatesCap(item, amount) THEN "Bid exceeds market cap"
  ELSE IF ViolatesHighest(item, amount) THEN "Bid must exceed current highest"
  ELSE "Bid must be at least minimum"

\* C2: a rejected bid is reported with exactly one reason, the first violated
\* condition in the order DuplicateOrLower, ExceedsCap, BelowHighest,
\* BelowMinimum, also when the bid violates several of them.
C2_FirstViolatedReason ==
  (bidding_open /\ current_user # "") =>
    \A item \in CatalogNames, amount \in Amounts, draw \in RunDraws :
      ~Acceptable(item, amount) =>
        SubmitBidRun(item, amount, draw).messages \cap RejectionMessages
          = {FirstViolation(item, amount)}

\* The user logged in stands at 150 on Apple and submits 140: below the own
\* standing and below the highest bid, reported as the former.
C2_Witness ==
  /\ bidding_open /\ current_user # ""
  /\ 150 \in AmountsOnBy("Apple", current_user_id)
  /\ ViolatesOwnStanding("Apple", 140) /\ ViolatesHighest("Apple", 140)
  /\ \A draw \in RunDraws :
       "You already have a higher or equal bid"
          \in SubmitBidRun("Apple", 140, draw).messages

\* C3: in every reachable state, for every item, get_highest_bid is the
\* maximum amount over the item's rows of the ledger, and 0 when it has none.
C3_HighestBidIsMax ==
  \A item \in ItemNames :
    LET hb == get_highest_bid(Cur, item)
    IN IF AmountsOn(item) = {} THEN hb = 0
       ELSE hb \in AmountsOn(item) /\ \A a \in AmountsOn(item) : a <= hb

\* A cycle begun by a reset in which an item holds two bids again while
\* another item holds none.
C3_Witness ==
  /\ bid_start > 0
  /\ Cardinality(AmountsOn("Apple")) = 2
  /\ AmountsOn("Banana") = {}

\* C4: bidding is open exactly when the elapsed time since bid_start is less
\* than 3 days, which is exactly when the remaining time is positive; a run
\* that observes it closed appends no bid row, and a Submit Bid in such a run
\* stores nothing a run without the button would not store.
C4_NoBidOnceClosed ==
  /\ bidding_open <=> (now - bid_start) < BID_DAYS * TicksPerDay
  /\ bidding_open <=> remaining > 0
  /\ (now - bid_start) >= BID_DAYS * TicksPerDay =>
       \A item \in CatalogNames, amount \in Amounts, draw \in RunDraws :
         /\ SubmitBidRun(item, amount, draw).bids = bids
         /\ SubmitBidRun(item, amount, draw) = RefreshRun(draw)

\* Exactly 3 days after bid_start, a logged-in user submits an amount every
\* condition of the contract accepts.
C4_Witness ==
  /\ now - bid_start = BID_DAYS * TicksPerDay
  /\ current_user # ""
  /\ \E item \in CatalogNames, amount \in Amounts : Acceptable(item, amount)

\* C5: the ledger changes only by an accepted Submit Bid, which appends one
\* row and alters none, and by the reset, which removes every row; a
\* rejected bid, registration, verification, login, the admin's catalog,
\* discount and minimum-bid updates and the billing and lucky-dip passes
\* leave it as it was.
C5_LedgerFrame ==
  \A draw \in RunDraws :
    /\ RefreshRun(draw).bids = bids
    /\ BillingPass(Cur).bids = bids
    /\ LuckyDipPass(Cur, draw).bids = bids
    /\ \A admin_pass \in Passwords : AdminLoginRun(admin_pass, draw).bids = bids
    /\ \A form \in RegistrationForms :
         RegisterRun(form[1], form[2], form[3], draw).bids = bids
    /\ \A otp_input \in Codes, us \in Micros :
         VerifyRun(otp_input, us, draw).bids = bids
    /\ \A login_id \in LoginIds : LoginRun(login_id, draw).bids = bids
    /\ \A new_item \in NewItems, discount \in Discounts :
         AddItemRun(new_item, discount, draw).bids = bids
    /\ \A new_min_bids \in MinBidForms :
         UpdateMinimumBidsRun(new_min_bids, draw).bids = bids
    /\ ResetRun(draw).bids = <<>>
    /\ \A item \in CatalogNames, amount \in Amounts :
         LET r == SubmitBidRun(item, amount, draw)
         IN IF "Bid confirmed" \in r.messages
            THEN /\ Len(r.bids) = Len(bids) + 1
                 /\ SubSeq(r.bids, 1, Len(bids)) = bids
            ELSE r.bids = bids

\* The ledger holds rows while the admin has added an item, changed the
\* discount and a minimum bid, and the passes have run on the closed cycle.
C5_Witness ==
  /\ bids # <<>>
  /\ lucky_dip # {}
  /\ billing_attempts # {}
  /\ Len(items) = 3
  /\ discount_pct # DEFAULT_DISCOUNT
  /\ \E r \in CatalogRows : r.name = "Apple" /\ r.min_bid = 160

\* The lucky-dip table of a state s of a run, restated on sets.
OneRowPerItem(table) ==
  \A r1 \in table, r2 \in table : r1.item_name = r2.item_name => r1 = r2
NoRowWithoutBids(table) ==
  \A r \in table : AmountsOn(r.item_name) # {}

\* C6: the lucky-dip table holds at most one row per item and no row for an
\* item without bids, in every reachable state and after the pass has run;
\* running the pass again on what it left, with any draws, changes nothing,
\* and neither does any later run of the closed cycle.
C6_LuckyDipOncePerCycle ==
  /\ OneRowPerItem(lucky_dip)
  /\ NoRowWithoutBids(lucky_dip)
  /\ ~bidding_open =>
       \A draw \in RunDraws :
         LET s1 == LuckyDipPass(BillingPass(Cur), draw)
         IN /\ OneRowPerItem(s1.lucky_dip)
            /\ NoRowWithoutBids(s1.lucky_dip)
            /\ \A again \in Draws(s1) :
                 /\ LuckyDipPass(s1, again).lucky_dip = s1.lucky_dip
                 /\ LuckyDipPass(LuckyDipPass(s1, again), draw).lucky_dip
                      = s1.lucky_dip
  /\ (~bidding_open /\ lucky_dip # {}) =>
       \A draw \in Draws(Cur) : RefreshRun(draw).lucky_dip = lucky_dip

\* The closed cycle's table is populated: one item with two bids has its
\* row, another item has no bids and no row.
C6_Witness ==
  /\ ~bidding_open
  /\ \E r \in lucky_dip : Cardinality(AmountsOn(r.item_name)) = 2
  /\ \E n \in CatalogNames : AmountsOn(n) = {} /\ ~\E r \in lucky_dip : r.item_name = n

\* C7: when the pass populates the table, every item with a bid gets a row
\* whose user and amount are those of a bid of the ledger on that item, and
\* every bid of the item is the winner for some outcome of the draw; the rows
\* of the table are bids of the ledger in every reachable state.
C7_WinnerAmongItemBids ==
  /\ \A r \in lucky_dip :
       \E b \in LedgerRows : /\ b.item_name = r.item_name
                             /\ b.user_id = r.user_id
                             /\ b.bid_amount = r.bid_amount
  /\ (~bidding_open /\ lucky_dip = {}) =>
       /\ \A draw \in RunDraws :
            \A n \in CatalogNames :
              AmountsOn(n) # {} =>
                \E r \in RefreshRun(draw).lucky_dip :
                  /\ r.item_name = n
                  /\ \E b \in LedgerRows : /\ b.item_name = n
                                        /\ b.user_id = r.user_id
                                        /\ b.bid_amount = r.bid_amount
       /\ \A b \in LedgerRows :
            \E draw \in RunDraws :
              [item_name |-> b.item_name, user_id |-> b.user_id,
               bid_amount |-> b.bid_amount] \in RefreshRun(draw).lucky_dip

\* The row of an item is a bid that is not the item's highest.
C7_Witness ==
  /\ ~bidding_open
  /\ \E r \in lucky_dip : r.bid_amount < MaxOrZero(AmountsOn(r.item_name))

\* The reference price of the fallback table, 100 for a name it lacks.
ReferencePrice(n) ==
  IF n = "Apple" THEN 200 ELSE IF n = "Banana" THEN 40 ELSE 100

\* C8 (as claimed): a run that observes bidding closed with billing_calculated
\* different from bid_start stores billing_<item> = reference price *
\* (1 - discount_pct/100) for every catalog item and then sets
\* billing_calculated to bid_start.
C8_BillingStored ==
  (~bidding_open /\ billing_calculated # Some(bid_start)) =>
    \A draw \in RunDraws :
      LET r == RefreshRun(draw)
      IN /\ r.billing_calculated = Some(bid_start)
         /\ \A n \in CatalogNames :
              r.billing[n] = Some((ReferencePrice(n) * (100 - discount_pct)) \div 100)

C10_ResetStartsCleanCycle ==
  \A draw \in RunDraws :
    LET r == ResetRun(draw)
    IN /\ r.bids = <<>>
       /\ r.lucky_dip = {}
       /\ r.billing_calculated = None
       /\ \A n \in CatalogNames : r.billing[n] = None
       /\ r.bid_start = now
       /\ DaysElapsed(now, r.bid_start) = 0
       /\ BiddingOpen(now, r.bid_start)

\* The admin's reset acts on a closed cycle that holds bids and lucky-dip
\* rows and has had its billing pass invoked.
C10_Witness ==
  /\ ~bidding_open
  /\ admin_logged
  /\ bids # <<>>
  /\ lucky_dip # {}
  /\ billing_attempts # {}
  /\ \A draw \in RunDraws : ResetRun(draw).bid_start = now /\ now > bid_start

\* The challenges of an identifier in the order of issue, and the instant a
\* stored challenge expires (a text without fraction is a whole second).
ChallengesOf(mobile_email) ==
  SelectSeq(otps, LAMBDA r: r.mobile_email = mobile_email)
ExpiresAt(row) ==
  <<row.expiration.t,
    IF row.expiration.frac = None THEN 0 ELSE row.expiration.frac[1]>>
NotAfter(reading, instant) ==
  reading[1] < instant[1] \/ (reading[1] = instant[1] /\ reading[2] <= instant[2])

\* C11 (as claimed): verify(identifier, code) at the clock reading now is
\* true if and only if the identifier has a challenge, the code is that of
\* its most recently issued challenge and now <= that challenge's
\* expires_at; in particular the code of an older challenge is not honoured.
C11_VerifyIffNewestUnexpired ==
  \A mobile_email \in OtpIdentifiers, user_otp \in Codes, us \in Micros :
    verify_otp(Cur, mobile_email, user_otp, us).ret
      <=> LET q == ChallengesOf(mobile_email)
          IN /\ q # <<>>
             /\ user_otp = q[Len(q)].otp
             /\ NotAfter(<<now, us>>, ExpiresAt(q[Len(q)]))

\* C16: a verification that succeeds leaves the otps table as it was, and a
\* second verification of the same identifier with the same code, at any
\* reading not after the challenge's expiry, succeeds again.
C16_VerifyDoesNotConsume ==
  \A mobile_email \in OtpIdentifiers, user_otp \in Codes, us \in Micros :
    LET r1 == verify_otp(Cur, mobile_email, user_otp, us)
        q == ChallengesOf(mobile_email)
    IN r1.ret =>
         /\ r1.otps = otps
         /\ \A us2 \in Micros :
              NotAfter(<<now, us2>>, ExpiresAt(q[Len(q)])) =>
                verify_otp(r1, mobile_email, user_otp, us2).ret

\* In the last minute of a challenge issued earlier, with an older challenge
\* of the same identifier in the table, the code is honoured twice.
C16_Witness ==
  \E mobile_email \in OtpIdentifiers, user_otp \in Codes, us \in Micros :
    LET r1 == verify_otp(Cur, mobile_email, user_otp, us)
        q == ChallengesOf(mobile_email)
    IN /\ Len(q) = 2
       /\ now = q[2].expiration.t
       /\ r1.ret
       /\ verify_otp(r1, mobile_email, user_otp, us).ret

\* A registration request with a well-formed identifier and an address, and
\* the session as the next run of the script finds it.
WellFormedForms ==
  {form \in RegistrationForms :
     /\ \/ (form[1] = "Mobile" /\ form[2] \in {"+919000000001"})
        \/ (form[1] = "Email" /\ form[2] \in {"a@x.in", "c@x.in"})
     /\ form[3] # ""}
NextRun(s) == [s EXCEPT !.messages = {}, !.raised = FALSE, !.ret = FALSE]
Pending(s, form) ==
  s.temp_reg = Some([reg_id |-> form[2], address |-> form[3]])

\* C12 (as claimed): a registration request with a well-formed identifier
\* and a non-empty address stores one new challenge for the identifier, with
\* expires_at = issuance time + 5 minutes, and remembers the pending
\* registration (identifier, address) for the verification step.
C12_RegistrationIssuesChallenge ==
  \A form \in WellFormedForms, draw \in RunDraws :
    LET r == RegisterRun(form[1], form[2], form[3], draw)
    IN /\ Len(r.otps) = Len(otps) + 1
       /\ SubSeq(r.otps, 1, Len(otps)) = otps
       /\ r.otps[Len(r.otps)].mobile_email = form[2]
       /\ ExpiresAt(r.otps[Len(r.otps)])[1] = now + OTP_MINUTES
       /\ Pending(r, form)

\* The code of the newest challenge of the identifier in s, honoured at the
\* reading <<now, us>>.
CorrectCode(s, mobile_email, code, us) ==
  LET q == SelectSeq(s.otps, LAMBDA r: r.mobile_email = mobile_email)
  IN /\ q # <<>>
     /\ code = q[Len(q)].otp
     /\ NotAfter(<<now, us>>, ExpiresAt(q[Len(q)]))

\* C13 (as claimed): in the session of a registration request, a
\* verification attempt creates a user record only when the code is the
\* correct, unexpired one, and creates it for the pending identifier with
\* verified = true; an attempt with an expired or incorrect code creates no
\* user record, leaves the identifier Pending and leaves the stored
\* challenges unchanged.
C13_UserOnlyByVerification ==
  \A form \in WellFormedForms, otp_input \in Codes, us \in Micros :
    LET s1 == NextRun(register(Cur, form[1], form[2], form[3]))
        s2 == verify_and_register(s1, otp_input, us)
    IN /\ s2.users # s1.users =>
            /\ CorrectCode(s1, form[2], otp_input, us)
            /\ Len(s2.users) = Len(s1.users) + 1
            /\ SubSeq(s2.users, 1, Len(s1.users)) = s1.users
            /\ s2.users[Len(s2.users)].mobile_email = form[2]
            /\ s2.users[Len(s2.users)].verified
       /\ ~CorrectCode(s1, form[2], otp_input, us) =>
            /\ s2.users = s1.users
            /\ Pending(s2, form)
            /\ s2.otps = s1.otps

\* C14 (as claimed): no two user records share a contact identifier, and for
\* an identifier that has a user record the verification that completes a
\* new registration request reports "User already registered" and leaves
\* the users table unchanged.
C14_AlreadyRegistered ==
  /\ \A i \in 1..Len(users), j \in 1..Len(users) :
       users[i].mobile_email = users[j].mobile_email => i = j
  /\ \A form \in WellFormedForms :
       get_user_id(Cur, form[2]) # None =>
         LET s1 == NextRun(register(Cur, form[1], form[2], form[3]))
         IN \E otp_input \in Codes, us \in Micros :
              LET s2 == verify_and_register(s1, otp_input, us)
              IN /\ "User already registered" \in s2.messages
                 /\ s2.users = users

\* Both threads have passed the guard of the same pass in this cycle.
BothRanBilling == \A r \in Requests : requests[r].ran_billing
BothRanLuckyDip == \A r \in Requests : requests[r].ran_lucky

\* C15 (as claimed), the sequential half: when a request starts only after
\* the other has ended, no state is reached in which both have executed the
\* billing pass, or both the lucky-dip pass, of the same cycle.
C15_SequentialRunsPassOnce ==
  sequential => (~BothRanBilling /\ ~BothRanLuckyDip)

\* C15, the concurrent half: both threads are past the guard of the billing
\* pass, or of the lucky-dip pass, before either has written.
C15_BothInBillingPass ==
  /\ ~sequential
  /\ \A r \in Requests : requests[r].pc = "billing_body"
C15_BothInLuckyDipPass ==
  /\ ~sequential
  /\ bids # <<>>
  /\ lucky_dip = {}
  /\ \A r \in Requests : requests[r].pc = "lucky_body"

\* Every item with a bid in the state s of a run has its lucky-dip row.
EveryBidItemHasRow(s) ==
  \A i \in 1..Len(s.bids) :
    \E row \in s.lucky_dip : row.item_name = s.bids[i].item_name

\* What the runs of the script leave, over every widget and input.
RunResults ==
  UNION {
    {RefreshRun(draw), ResetRun(draw)}
      \cup {AdminLoginRun(admin_pass, draw) : admin_pass \in Passwords}
      \cup {RegisterRun(form[1], form[2], form[3], draw) : form \in RegistrationForms}
      \cup {VerifyRun(otp_input, 0, draw) : otp_input \in Codes}
      \cup {LoginRun(login_id, draw) : login_id \in LoginIds}
      \cup {AddItemRun(new_item, discount, draw) :
               new_item \in NewItems, discount \in Discounts}
      \cup {UpdateMinimumBidsRun(new_min_bids, draw) : new_min_bids \in MinBidForms}
      \cup {SubmitBidRun(items[i].name, bid_amount, draw) :
               i \in 1..Len(items), bid_amount \in Amounts}
    : draw \in RunDraws}

\* C17 (as claimed): while less than 3 days have elapsed since bid_start the
\* lucky-dip table is empty and billing_calculated differs from bid_start;
\* once bidding is closed, the next run of the script, whatever its widget,
\* runs the passes, so that every item with a bid has its lucky-dip row when
\* the run ends.
C17_ResolverOnlyAfterClose ==
  /\ (now - bid_start) < BID_DAYS * TicksPerDay =>
       (lucky_dip = {} /\ billing_calculated # Some(bid_start))
  /\ (now - bid_start) >= BID_DAYS * TicksPerDay =>
       \A r \in RunResults : EveryBidItemHasRow(r)

\* The positions of an item's rows in the ledger, in the order of acceptance.
RowsOf(item) == {i \in 1..Len(bids) : bids[i].item_name = item}

\* C18: within a cycle the bids of each item are strictly increasing in the
\* order they were accepted, so no two bids of an item have the same amount
\* and the item's last accepted bid holds its highest amount; every accepted
\* bid strictly raises highest_bid(item).
C18_BidsStrictlyIncreasing ==
  /\ \A item \in ItemNames :
       /\ \A i \in RowsOf(item), j \in RowsOf(item) :
            i < j => bids[i].bid_amount < bids[j].bid_amount
       /\ RowsOf(item) # {} =>
            LET last == CHOOSE i \in RowsOf(item) : \A j \in RowsOf(item) : j <= i
            IN bids[last].bid_amount = MaxOrZero(AmountsOn(item))
  /\ (bidding_open /\ current_user # "") =>
       \A item \in CatalogNames, amount \in Amounts, draw \in RunDraws :
         LET r == SubmitBidRun(item, amount, draw)
         IN r.bids # bids =>
              /\ get_highest_bid(r, item) = amount
              /\ amount > MaxOrZero(AmountsOn(item))

\* Two users have bid in turn on one item, and another item has a bid of a
\* lower amount in between.
C18_Witness ==
  /\ Cardinality(RowsOf("Apple")) = 2
  /\ Cardinality({bids[i].user_id : i \in RowsOf("Apple")}) = 2
  /\ \E i \in RowsOf("Apple"), j \in RowsOf("Banana"), k \in RowsOf("Apple") :
       i < j /\ j < k

\* The user records, and the record of a contact identifier.
UserRows == {users[i] : i \in 1..Len(users)}

\* C19: every bid row's user_id is the id of a user record with verified =
\* true; the session that can bid is that of a user record; a login run
\* opens the session exactly for the identifiers that have a user record;
\* and no run removes or alters a user record.
C19_BidsByVerifiedUsers ==
  /\ \A b \in LedgerRows : \E u \in UserRows : u.id = b.user_id /\ u.verified
  /\ current_user # "" =>
       \E u \in UserRows : /\ u.id = current_user_id
                            /\ u.mobile_email = current_user
                            /\ u.verified
  /\ \A login_id \in LoginIds, draw \in RunDraws :
       LET r == LoginRun(login_id, draw)
       IN IF \E u \in UserRows : u.mobile_email = login_id
          THEN /\ r.current_user = login_id
               /\ \E u \in UserRows : u.mobile_email = login_id /\ u.id = r.current_user_id
          ELSE /\ r.current_user = current_user
               /\ r.current_user_id = current_user_id
  /\ \A r \in RunResults :
       Len(r.users) >= Len(users) /\ SubSeq(r.users, 1, Len(users)) = users

\* Both users have rows in the ledger, and the identifier c@x.in, which has
\* no user record, can be typed into the login field.
C19_Witness ==
  /\ {b.user_id : b \in LedgerRows} = {1, 2}
  /\ current_user # ""
  /\ ~\E u \in UserRows : u.mobile_email = "c@x.in"
  /\ \A draw \in RunDraws : LoginRun("c@x.in", draw).current_user = current_user

\* C20: the catalog, the minimum bids, discount_pct and bid_start differ
\* from their initial values only in a session whose admin flag is set; a
\* run with a wrong password leaves the flag as it was and one with the right
\* password sets it; and refresh, registration, verification, login and bid
\* runs leave items, discount_pct and bid_start as they were.
C20_AdminOnly ==
  /\ (items # initial_items \/ discount_pct # DEFAULT_DISCOUNT \/ bid_start # 0)
       => admin_logged
  /\ \A admin_pass \in Passwords, draw \in RunDraws :
       AdminLoginRun(admin_pass, draw).admin_logged
         = (admin_logged \/ admin_pass = "admin123")
  /\ \A draw \in RunDraws :
       \A r \in {RefreshRun(draw)}
              \cup {RegisterRun(form[1], form[2], form[3], draw) :
                      form \in RegistrationForms}
              \cup {VerifyRun(otp_input, us, draw) :
                      otp_input \in Codes, us \in Micros}
              \cup {LoginRun(login_id, draw) : login_id \in LoginIds}
              \cup {SubmitBidRun(items[i].name, bid_amount, draw) :
                      i \in 1..Len(items), bid_amount \in Amounts} :
         /\ r.items = items
         /\ r.discount_pct = discount_pct
         /\ r.bid_start = bid_start
         /\ r.admin_logged = admin_logged

\* The admin has added an item, changed a minimum bid and the discount and
\* reset the cycle, and a user has bid since.
C20_Witness ==
  /\ admin_logged
  /\ Len(items) = 3
  /\ \E row \in CatalogRows : row.name = "Apple" /\ row.min_bid = 160
  /\ discount_pct # DEFAULT_DISCOUNT
  /\ bid_start > 0
  /\ bids # <<>>

\* C21: every store-mutating action whose validation passes (a bid that is
\* inserted, a minimum-bid update, a discount within 0..100, a cycle reset)
\* ends its run in the success outcome: the run that stored the change raises
\* no error after the commit and reports the change.
C21_CommittedActionsSucceed ==
  \A draw \in RunDraws :
    /\ (bidding_open /\ current_user # "") =>
         \A item \in CatalogNames, amount \in Amounts :
           LET r == SubmitBidRun(item, amount, draw)
           IN r.bids # bids =>
                (~r.raised /\ "Bid confirmed" \in r.messages)
    /\ admin_logged =>
         /\ \A new_min_bids \in MinBidForms :
              LET r == UpdateMinimumBidsRun(new_min_bids, draw)
              IN ~r.raised /\ "Minimum bids updated" \in r.messages
         /\ \A new_item \in NewItems, discount \in Discounts :
              LET r == AddItemRun(new_item, discount, draw)
              IN (0 <= discount /\ discount <= 100) =>
                   (~r.raised /\ r.discount_pct = discount)
         /\ LET r == ResetRun(draw)
            IN ~r.raised /\ "Bid cycle reset" \in r.messages

====
